---------------------------- MODULE Spec2Model ----------------------------
(***************************************************************************)
(* EUDR Compliance Assistant: the geometry validation, repair and export   *)
(* optimisation engine (src/lib/eudr-validator.ts), the export assembler   *)
(* (src/lib/export-service), login rate limiting (src/lib/auth.ts and the  *)
(* login route) and the routes that store production places and move a     *)
(* supplier's status, as state machines.                                   *)
(*                                                                         *)
(* Numbers.  A coordinate component is an integer number of 1e-7 degrees   *)
(* (so 0.1234568 is 1234568 and -200 is -2000000000): seven decimal digits *)
(* are enough to tell a value with six decimals from one that has to be    *)
(* rounded.  Areas are whole hectares.                                     *)
(*                                                                         *)
(* Geometry.  The GeoJSON "coordinates" member is kept in one shape for    *)
(* every geometry type, a sequence of polygons, each a sequence of rings,  *)
(* each a sequence of positions <<lng, lat>>:                              *)
(*    Point p          <<  << <<p>> >>  >>                                 *)
(*    MultiPoint ps    <<  << ps >>  >>      (also LineString)             *)
(*    Polygon rings    <<  rings  >>                                       *)
(*    MultiPolygon     the polygons                                        *)
(* and a feature without geometry has geometry NoGeometry.                 *)
(***************************************************************************)
EXTENDS Integers, Sequences, FiniteSets, TLC

VARIABLES
    geojson,            \* the document handed to the validator library
    call,               \* the library call made on it: [fn, options]
    ret,                \* what that call returned (or that it threw)
    productionPlaces,   \* prisma.productionPlace rows selected for an export
    exportOptions,      \* the ExportOptions of the generateExport call
    exportResult,       \* what generateExport returned (or that it threw)
    r2Objects,          \* archives uploaded to object storage
    geoJSONExports,     \* prisma.geoJSONExport rows
    loginAttempts,      \* prisma.loginAttempt rows of one email, in creation order
    now,                \* Date.now(), in minutes
    logins,             \* the login requests in flight: where each one stands
    placeRows,          \* prisma.productionPlace rows of one supplier, as stored
    supplierStatus,     \* that supplier's status
    response            \* the last answer of a route handler: [route, status]

libVars == <<geojson, call, ret>>
exportVars == <<productionPlaces, exportOptions, exportResult, r2Objects, geoJSONExports>>
loginVars == <<loginAttempts, now, logins>>
placeVars == <<placeRows, supplierStatus>>
vars == <<geojson, call, ret, productionPlaces, exportOptions, exportResult,
          r2Objects, geoJSONExports, loginAttempts, now, logins, placeRows,
          supplierStatus, response>>

---------------------------------------------------------------------------
(* Sequences *)

RECURSIVE Concat(_)
Concat(ss) == IF ss = <<>> THEN <<>> ELSE Head(ss) \o Concat(Tail(ss))

RECURSIVE SeqsUpTo(_, _)
SeqsUpTo(S, n) ==
    IF n = 0 THEN {<<>>}
    ELSE LET shorter == SeqsUpTo(S, n - 1)
         IN  shorter \cup {Append(s, x) : s \in {t \in shorter : Len(t) = n - 1}, x \in S}

Count(s, P(_)) == Cardinality({i \in 1..Len(s) : P(s[i])})

---------------------------------------------------------------------------
(* Values *)

Deg(d) == d * 10000000
Micro(u) == u * 10

\* (Infinity + -Infinity) / 2 and 0 / 0
NaN == 2147483647

\* an absent number (undefined), and an absent string as a template prints it
Undefined == -1
NoArea == Undefined
NoName == "undefined"
NoCountry == "undefined"

NoGeometry == [type |-> "null", coordinates |-> <<>>]

Point(p) == [type |-> "Point", coordinates |-> << << <<p>> >> >>]
MultiPoint(ps) == [type |-> "MultiPoint", coordinates |-> << <<ps>> >>]
LineString(ps) == [type |-> "LineString", coordinates |-> << <<ps>> >>]
Polygon(rings) == [type |-> "Polygon", coordinates |-> <<rings>>]
MultiPolygon(polys) == [type |-> "MultiPolygon", coordinates |-> polys]

\* the position of a Point geometry
PointOf(geometry) == geometry.coordinates[1][1][1]
\* the positions of a MultiPoint or LineString geometry
PointsOf(geometry) == geometry.coordinates[1][1]
\* the rings of a Polygon geometry
RingsOf(geometry) == geometry.coordinates[1]

Feature(name, area, country, geometry) ==
    [properties |-> [ProductionPlace |-> name, Area |-> area, ProducerCountry |-> country],
     geometry |-> geometry]

FeatureCollection(features) == [type |-> "FeatureCollection", features |-> features]

VALIDATION_CODES ==
    [INVALID_GEOJSON |-> "INVALID_GEOJSON",
     INVALID_GEOMETRY |-> "INVALID_GEOMETRY",
     COORDINATE_OUT_OF_BOUNDS |-> "COORDINATE_OUT_OF_BOUNDS",
     PRECISION_TOO_LOW |-> "PRECISION_TOO_LOW",
     POLYGON_NOT_CLOSED |-> "POLYGON_NOT_CLOSED",
     POLYGON_TOO_FEW_VERTICES |-> "POLYGON_TOO_FEW_VERTICES",
     SELF_INTERSECTION |-> "SELF_INTERSECTION",
     POLYGON_HAS_HOLES |-> "POLYGON_HAS_HOLES",
     LINESTRING_NOT_ALLOWED |-> "LINESTRING_NOT_ALLOWED",
     LARGE_PLOT_NEEDS_POLYGON |-> "LARGE_PLOT_NEEDS_POLYGON",
     FILE_TOO_LARGE |-> "FILE_TOO_LARGE",
     MISSING_PROPERTIES |-> "MISSING_PROPERTIES"]

\* a ValidationError / ValidationWarning before validateGeoJSON tags it
Issue(code, message) == [code |-> code, message |-> message]

\* a call that ended in an exception
Threw(error) == [threw |-> TRUE, error |-> error]

---------------------------------------------------------------------------
(* validateGeoJSON and its helpers (eudr-validator.ts) *)

\* num.toString() has a "." only in plain notation; a non-zero magnitude
\* below 1e-6 prints in exponent notation ("5e-7"), as does NaN ("NaN")
RECURSIVE TrailingZeros(_)
TrailingZeros(n) == IF n % 10 = 0 THEN 1 + TrailingZeros(n \div 10) ELSE 0

countDecimalPlaces(num) ==
    LET abs == IF num < 0 THEN 0 - num ELSE num
    IN  IF num = NaN \/ abs < 10 THEN 0
        ELSE IF TrailingZeros(abs) >= 7 THEN 0
        ELSE 7 - TrailingZeros(abs)

\* getAllCoordinates reads coordinates[0] of a Polygon and polygon[0] of each
\* member of a MultiPolygon: a TypeError when there is no such ring
getAllCoordinatesThrows(geometry) ==
    CASE geometry.type = "Polygon" -> RingsOf(geometry) = <<>>
      [] geometry.type = "MultiPolygon" ->
            \E k \in 1..Len(geometry.coordinates) : geometry.coordinates[k] = <<>>
      [] OTHER -> FALSE

getAllCoordinates(geometry) ==
    CASE geometry.type = "Point" -> <<PointOf(geometry)>>
      [] geometry.type = "MultiPoint" -> PointsOf(geometry)
      [] geometry.type = "Polygon" -> RingsOf(geometry)[1]
      [] geometry.type = "MultiPolygon" ->
            Concat([k \in 1..Len(geometry.coordinates) |-> geometry.coordinates[k][1]])
      [] OTHER -> <<>>

latOutOfBounds(lat) == lat # NaN /\ (lat < Deg(-90) \/ lat > Deg(90))
lngOutOfBounds(lng) == lng # NaN /\ (lng < Deg(-180) \/ lng > Deg(180))

\* the body of coordinates.forEach in validateGeometry
coordinateErrorsMutant(coord) ==
    IF latOutOfBounds(coord[2])
    THEN <<Issue(VALIDATION_CODES.COORDINATE_OUT_OF_BOUNDS,
                 "Latitude is outside valid range (-90 to 90)")>>
    ELSE IF lngOutOfBounds(coord[1])
    THEN <<Issue(VALIDATION_CODES.COORDINATE_OUT_OF_BOUNDS,
                 "Longitude is outside valid range (-180 to 180)")>>
    ELSE <<>>

coordinateErrors(coord) ==
    LET lng == coord[1]
        lat == coord[2]
    IN  (IF latOutOfBounds(lat)
         THEN <<Issue(VALIDATION_CODES.COORDINATE_OUT_OF_BOUNDS,
                      "Latitude is outside valid range (-90 to 90)")>>
         ELSE <<>>)
        \o
        (IF lngOutOfBounds(lng)
         THEN <<Issue(VALIDATION_CODES.COORDINATE_OUT_OF_BOUNDS,
                      "Longitude is outside valid range (-180 to 180)")>>
         ELSE <<>>)

precisionTooLow(coord) ==
    countDecimalPlaces(coord[2]) < 6 \/ countDecimalPlaces(coord[1]) < 6

coordinateWarnings(coord) ==
    IF precisionTooLow(coord)
    THEN <<Issue(VALIDATION_CODES.PRECISION_TOO_LOW,
                 "Coordinates have less than 6 decimal places")>>
    ELSE <<>>

\* validatePolygon reads ring[0][0]: a TypeError on a ring without positions
validatePolygonThrows(polygon) ==
    \E k \in 1..Len(polygon.coordinates) :
        \E j \in 1..Len(polygon.coordinates[k]) : polygon.coordinates[k][j] = <<>>

isClosed(ring) == ring[1][1] = ring[Len(ring)][1] /\ ring[1][2] = ring[Len(ring)][2]

tooFewVerticesMutant(ring) == Len(ring) < 3
tooFewVertices(ring) == Len(ring) < 4

isHoleMutant(ringIndex) == ringIndex > 1
isHole(ringIndex) == ringIndex > 0

\* the body of rings.forEach in validatePolygon; ringIndex counts from 0
ringErrors(ring, ringIndex) ==
    (IF ~isClosed(ring)
     THEN <<Issue(VALIDATION_CODES.POLYGON_NOT_CLOSED,
                  "Polygon must be closed (first and last coordinates must match)")>>
     ELSE <<>>)
    \o
    (IF tooFewVertices(ring)
     THEN <<Issue(VALIDATION_CODES.POLYGON_TOO_FEW_VERTICES,
                  "Polygon requires at least 4 vertices (including closure)")>>
     ELSE <<>>)
    \o
    (IF isHole(ringIndex)
     THEN <<Issue(VALIDATION_CODES.POLYGON_HAS_HOLES, "Polygons with holes are not allowed")>>
     ELSE <<>>)

validatePolygon(polygon) ==
    Concat([k \in 1..Len(polygon.coordinates) |->
        Concat([j \in 1..Len(polygon.coordinates[k]) |->
            ringErrors(polygon.coordinates[k][j], j - 1)])])

largePlotMutant(geometry, properties) ==
    /\ geometry.type = "Point"
    /\ properties.Area # NoArea /\ properties.Area # 0
    /\ properties.Area >= 4

largePlot(geometry, properties) ==
    /\ geometry.type = "Point"
    /\ properties.Area # NoArea /\ properties.Area # 0
    /\ properties.Area > 4

allowedTypesMutant == {"Point", "MultiPoint", "LineString", "Polygon", "MultiPolygon"}
allowedTypes == {"Point", "MultiPoint", "Polygon", "MultiPolygon"}

validateGeometry(geometry, properties) ==
    IF geometry.type \notin allowedTypes
    THEN [threw |-> FALSE,
          errors |-> <<Issue(VALIDATION_CODES.LINESTRING_NOT_ALLOWED,
                             "Geometry type is not allowed. Use Point or Polygon.")>>,
          warnings |-> <<>>]
    ELSE IF getAllCoordinatesThrows(geometry) THEN Threw("TypeError")
    ELSE IF geometry.type \in {"Polygon", "MultiPolygon"} /\ validatePolygonThrows(geometry)
    THEN Threw("TypeError")
    ELSE
    LET coordinates == getAllCoordinates(geometry)
    IN  [threw |-> FALSE,
         errors |->
            Concat([i \in 1..Len(coordinates) |-> coordinateErrors(coordinates[i])])
            \o (IF geometry.type \in {"Polygon", "MultiPolygon"}
                THEN validatePolygon(geometry) ELSE <<>>)
            \o (IF largePlot(geometry, properties)
                THEN <<Issue(VALIDATION_CODES.LARGE_PLOT_NEEDS_POLYGON,
                       "Plots larger than 4 hectares require polygon geometry, not a point")>>
                ELSE <<>>),
         warnings |->
            Concat([i \in 1..Len(coordinates) |-> coordinateWarnings(coordinates[i])])]

\* an issue as validateGeoJSON records it; featureId is the index in `feature-<index>`
Tagged(issue, index, feature) ==
    [code |-> issue.code, message |-> issue.message,
     featureId |-> index, featureName |-> feature.properties.ProductionPlace]

\* the body of geojson.features.forEach in validateGeoJSON; index counts from 0
validateFeature(feature, index) ==
    IF feature.geometry = NoGeometry
    THEN [threw |-> FALSE,
          errors |-> <<Tagged(Issue(VALIDATION_CODES.INVALID_GEOMETRY,
                                    "Feature missing geometry"), index, feature)>>,
          warnings |-> <<>>]
    ELSE LET g == validateGeometry(feature.geometry, feature.properties)
         IN  IF g.threw THEN g
             ELSE [threw |-> FALSE,
                   errors |-> [i \in 1..Len(g.errors) |-> Tagged(g.errors[i], index, feature)],
                   warnings |-> [i \in 1..Len(g.warnings) |->
                                    Tagged(g.warnings[i], index, feature)]]

validMutant(errors, warnings) == errors = <<>> /\ warnings = <<>>
valid(errors, warnings) == errors = <<>>

\* !geojson || geojson.type !== 'FeatureCollection'
notFeatureCollectionMutant(doc) == doc.type = "null"
notFeatureCollection(doc) == doc.type = "null" \/ doc.type # "FeatureCollection"

validateGeoJSON(doc) ==
    IF notFeatureCollection(doc)
    THEN [threw |-> FALSE, valid |-> FALSE,
          errors |-> <<[code |-> VALIDATION_CODES.INVALID_GEOJSON,
                        message |-> "Invalid GeoJSON: must be a FeatureCollection",
                        featureId |-> -1, featureName |-> NoName]>>,
          warnings |-> <<>>]
    ELSE LET each == [i \in 1..Len(doc.features) |-> validateFeature(doc.features[i], i - 1)]
         IN  IF \E i \in 1..Len(each) : each[i].threw THEN Threw("TypeError")
             ELSE LET errors == Concat([i \in 1..Len(each) |-> each[i].errors])
                      warnings == Concat([i \in 1..Len(each) |-> each[i].warnings])
                  IN  [threw |-> FALSE, valid |-> valid(errors, warnings),
                       errors |-> errors, warnings |-> warnings]

---------------------------------------------------------------------------
(* fixGeoJSON (eudr-validator.ts) *)

\* Math.round(num * 10^precision) / 10^precision, Math.round being
\* floor(x + 0.5): a tie goes up, towards +Infinity
roundToPrecision(num, precision) ==
    IF num = NaN THEN NaN ELSE ((num + 5) \div 10) * 10

closeAlways(fixedRing) == Append(fixedRing, fixedRing[1])
closeNever(fixedRing) == fixedRing
closeByLongitude(fixedRing) ==
    IF fixedRing[1][1] # fixedRing[Len(fixedRing)][1]
    THEN Append(fixedRing, fixedRing[1]) ELSE fixedRing

\* lines 240-246: close a non-empty rounded ring whose ends differ
closeRing(fixedRing) ==
    IF fixedRing[1][1] # fixedRing[Len(fixedRing)][1]
       \/ fixedRing[1][2] # fixedRing[Len(fixedRing)][2]
    THEN Append(fixedRing, fixedRing[1]) ELSE fixedRing

\* the body of coordinates.map(ring => ...) in fixGeoJSON
fixRing(ring) ==
    LET fixedRing == [i \in 1..Len(ring) |->
                        <<roundToPrecision(ring[i][1], 6), roundToPrecision(ring[i][2], 6)>>]
    IN  IF Len(fixedRing) > 0 THEN closeRing(fixedRing) ELSE fixedRing

\* the body of geojson.features.map(feature => ...) in fixGeoJSON
fixFeatureMutant(feature) ==
    IF feature.geometry = NoGeometry THEN feature
    ELSE IF feature.geometry.type = "Polygon"
    THEN [feature EXCEPT !.geometry =
            Polygon([j \in 1..Len(RingsOf(feature.geometry)) |->
                        fixRing(RingsOf(feature.geometry)[j])])]
    ELSE IF feature.geometry.type = "Point"
    THEN [feature EXCEPT !.geometry =
            Point(<<roundToPrecision(PointOf(feature.geometry)[1], 6),
                    roundToPrecision(PointOf(feature.geometry)[2], 6)>>)]
    ELSE feature

fixFeature(feature) ==
    IF feature.geometry = NoGeometry THEN feature
    ELSE IF feature.geometry.type = "Polygon"
    THEN [feature EXCEPT !.geometry =
            Polygon([j \in 1..Len(RingsOf(feature.geometry)) |->
                        fixRing(RingsOf(feature.geometry)[j])])]
    ELSE feature

fixGeoJSON(doc) == FeatureCollection([i \in 1..Len(doc.features) |-> fixFeature(doc.features[i])])

---------------------------------------------------------------------------
(* polygonToPoint, simplifyPolygon, optimizeGeoJSONForExport (eudr-validator.ts) *)

\* turf.polygon(coordinates) throws unless every ring has 4 or more positions
\* and its first and last positions are equivalent
turfPolygonThrows(coordinates) ==
    \E j \in 1..Len(coordinates) :
        \/ Len(coordinates[j]) < 4
        \/ coordinates[j][1] # coordinates[j][Len(coordinates[j])]

RECURSIVE SumDiv(_, _, _)
SumDiv(s, axis, n) == IF s = <<>> THEN 0 ELSE (Head(s)[axis] \div n) + SumDiv(Tail(s), axis, n)
RECURSIVE SumMod(_, _, _)
SumMod(s, axis, n) == IF s = <<>> THEN 0 ELSE (Head(s)[axis] % n) + SumMod(Tail(s), axis, n)

\* the mean of one axis of the positions, to the model's 1e-7 degree
Mean(s, axis) ==
    IF s = <<>> THEN NaN
    ELSE SumDiv(s, axis, Len(s)) + (SumMod(s, axis, Len(s)) \div Len(s))

\* turf.centroid: the mean of the positions of all rings, each ring's closing
\* position left out
turfCentroid(coordinates) ==
    LET open == Concat([j \in 1..Len(coordinates) |->
                          SubSeq(coordinates[j], 1, Len(coordinates[j]) - 1)])
    IN  <<Mean(open, 1), Mean(open, 2)>>

\* polygonToPoint with its default { preferCentroid: true }: the Feature that
\* turf.centroid returns, whose properties are {}
polygonToPoint(polygon) ==
    Feature(NoName, NoArea, NoCountry, Point(turfCentroid(RingsOf(polygon))))

\* turf.simplify keeps a ring's first and last position and drops interior
\* positions within the tolerance; which ones is the library's numeric matter,
\* so `keep`, the interior indexes that survive, is chosen freely.  A ring is
\* never left with fewer than 4 positions.
simplifyRing(ring, keep) ==
    LET kept == {i \in 1..Len(ring) : i = 1 \/ i = Len(ring) \/ i \in keep}
        F[i \in 0..Len(ring)] ==
            IF i = 0 THEN <<>>
            ELSE IF i \in kept THEN Append(F[i - 1], ring[i]) ELSE F[i - 1]
    IN  IF Cardinality(kept) >= 4 THEN F[Len(ring)] ELSE ring

simplifyPolygon(polygon, tolerance, keep) ==
    Polygon([j \in 1..Len(RingsOf(polygon)) |-> simplifyRing(RingsOf(polygon)[j], keep)])

DefaultSmallPlotThreshold == 4

\* area && area <= smallPlotThreshold
isSmallPlotMutant(area, smallPlotThreshold) == area # Undefined /\ area # 0
isSmallPlot(area, smallPlotThreshold) ==
    area # Undefined /\ area # 0 /\ area <= smallPlotThreshold

ConvertedNote(featureName) == <<"Converted \"", featureName, "\" from polygon to point">>
SimplifiedNote(featureName) == <<"Simplified polygon for \"", featureName, "\"">>

\* the body of geojson.features.map(feature => ...) in optimizeGeoJSONForExport
optimizeFeature(feature, options, keep) ==
    LET smallPlotThreshold == IF options.smallPlotThreshold = Undefined
                              THEN DefaultSmallPlotThreshold ELSE options.smallPlotThreshold
        featureName == feature.properties.ProductionPlace
    IN  IF feature.geometry = NoGeometry
        THEN [threw |-> FALSE, feature |-> feature, changes |-> <<>>]
        ELSE IF /\ options.convertSmallToPoints
                /\ isSmallPlot(feature.properties.Area, smallPlotThreshold)
                /\ feature.geometry.type = "Polygon"
        THEN IF turfPolygonThrows(RingsOf(feature.geometry)) THEN Threw("Error")
             ELSE [threw |-> FALSE, feature |-> polygonToPoint(feature.geometry),
                   changes |-> <<ConvertedNote(featureName)>>]
        ELSE IF /\ options.simplifyTolerance # Undefined /\ options.simplifyTolerance # 0
                /\ feature.geometry.type = "Polygon"
        THEN IF turfPolygonThrows(RingsOf(feature.geometry)) THEN Threw("Error")
             ELSE [threw |-> FALSE,
                   feature |-> [feature EXCEPT !.geometry =
                        simplifyPolygon(feature.geometry, options.simplifyTolerance, keep)],
                   changes |-> <<SimplifiedNote(featureName)>>]
        ELSE [threw |-> FALSE, feature |-> feature, changes |-> <<>>]

optimizeGeoJSONForExport(doc, options, keep) ==
    LET each == [i \in 1..Len(doc.features) |-> optimizeFeature(doc.features[i], options, keep)]
    IN  IF \E i \in 1..Len(each) : each[i].threw THEN Threw("Error")
        ELSE [threw |-> FALSE,
              geojson |-> FeatureCollection([i \in 1..Len(each) |-> each[i].feature]),
              changes |-> Concat([i \in 1..Len(each) |-> each[i].changes])]

---------------------------------------------------------------------------
(* The documents the library is called on *)

MaxRingLen == 4
MaxRings == 2
MaxFeatures == 2

pA == <<Micro(123457), Micro(123457)>>          \* 0.123457, 0.123457
pB == <<1234568, 1234568>>                      \* 0.1234568: rounds to pA
pC == <<Deg(-200), Deg(-10)>>                   \* longitude out of range
pD == <<Micro(-60123456), Micro(-10654321)>>    \* -60.123456, -10.654321
pE == <<Deg(180), Deg(90)>>                     \* on the boundary
pF == <<Deg(200), Deg(95)>>                     \* both axes out of range
pG == <<Deg(-180), Deg(-91)>>                   \* latitude out of range
pH == <<-1234565, 5>>                           \* -0.1234565 (a tie), 5e-7

Positions == {pA, pB, pC, pD, pE, pF, pG, pH}
RingPositions == {pA, pB, pC}

Rings == SeqsUpTo(RingPositions, MaxRingLen)
closedHole == <<pD, pA, pB, pD>>
HoleRings == {closedHole, <<pF>>}
Polygons == {<<>>} \cup {<<outer>> \o holes : outer \in Rings,
                                              holes \in SeqsUpTo(HoleRings, MaxRings - 1)}
MemberPolygons == {<<closedHole>>, <<closedHole, <<pF>> >>, <<<<pB, pC, pA>>>>, <<>>}

Geometries ==
    {NoGeometry, LineString(<<pD, pA>>)}
    \cup {Point(p) : p \in Positions}
    \cup {MultiPoint(ps) : ps \in SeqsUpTo({pD, pC, pH}, 2)}
    \cup {Polygon(rings) : rings \in Polygons}
    \cup {MultiPolygon(polys) : polys \in SeqsUpTo(MemberPolygons, 2)}

Areas == {NoArea, 0, 4, 5}

Features == {Feature("Plot", area, "BR", geometry) : area \in Areas, geometry \in Geometries}

Siblings ==
    {Feature("A", 2, "BR", Point(pD)),
     Feature("B", 10, "CO", Point(pC)),
     Feature(NoName, NoArea, NoCountry, NoGeometry),
     Feature("A", 5, "BR", LineString(<<pD, pC>>)),
     Feature("B", 4, "CO", Polygon(<<<<pB, pC, pD>>>>)),
     Feature("A", 2, "BR", Polygon(<<closedHole>>)),
     Feature("B", 5, "CO", Polygon(<<<<pD, pA, pB, pE, pD>>>>)),
     Feature("B", 4, "CO", Polygon(<<>>))}

\* validateGeoJSON(null), and a document that is no FeatureCollection
NullDoc == [type |-> "null", features |-> <<>>]
WrongTypeDoc == [type |-> "Invalid", features |-> <<>>]
\* a document of another type that nevertheless has a features member
MistypedDoc == [type |-> "Feature", features |-> <<Feature("B", 10, "CO", Point(pC))>>]

\* a closed ring whose ends lie halfway between two 6-decimal values
tieRing == <<pH, pA, pB, pH>>

\* the unclosed square [[0,0],[1,0],[1,1],[0,1]]
unitSquare == <<<<0, 0>>, <<Deg(1), 0>>, <<Deg(1), Deg(1)>>, <<0, Deg(1)>>>>

Documents ==
    {NullDoc, WrongTypeDoc, MistypedDoc,
     FeatureCollection(<<Feature("Plot", 2, "BR", Polygon(<<tieRing>>))>>),
     FeatureCollection(<<Feature("Square", 2, "BR", Polygon(<<unitSquare>>))>>)}
    \cup {FeatureCollection(<<f>>) : f \in Features}
    \cup {FeatureCollection(fs) : fs \in SeqsUpTo(Siblings, MaxFeatures)}

\* 0.0001 degree, simplifyPolygon's default tolerance
Tolerance == 1000

OptimizeOptions ==
    [convertSmallToPoints : BOOLEAN,
     simplifyTolerance : {Undefined, Tolerance},
     smallPlotThreshold : {Undefined, 5}]

\* the interior positions turf.simplify may keep
KeepChoices == SUBSET (2..MaxRingLen)

NoCall == [fn |-> "none", options |-> <<>>]
NoDocument == FeatureCollection(<<>>)

---------------------------------------------------------------------------
(* The export service's state while only the library is exercised *)

ExportIdle ==
    /\ productionPlaces = <<>>
    /\ exportOptions = <<>>
    /\ exportResult = <<>>
    /\ r2Objects = <<>>
    /\ geoJSONExports = <<>>

\* the login requests that can be in flight together
Logins == {"r1", "r2"}

\* a request slot before a login request arrives
NoLogin == [pc |-> "idle", attempts |-> 0]

\* the login route's state while no one logs in
LoginIdle ==
    /\ loginAttempts = <<>>
    /\ now = 0
    /\ logins = [r \in Logins |-> NoLogin]

\* the production places' state while no place is created or edited
PlacesIdle ==
    /\ placeRows = <<>>
    /\ supplierStatus = "INVITED"

NoResponse == [route |-> "none", status |-> 0]

---------------------------------------------------------------------------
(* Spec: a caller hands one document to the library's functions *)

Init ==
    /\ geojson \in Documents
    /\ call = NoCall
    /\ ret = <<>>
    /\ ExportIdle
    /\ LoginIdle
    /\ PlacesIdle
    /\ response = NoResponse

Validate ==
    /\ call = NoCall
    /\ call' = [fn |-> "validateGeoJSON", options |-> <<>>]
    /\ ret' = validateGeoJSON(geojson)
    /\ UNCHANGED <<geojson, exportVars, loginVars, placeVars, response>>

\* geojson.features.map on null is a TypeError
Fix ==
    /\ call = NoCall
    /\ call' = [fn |-> "fixGeoJSON", options |-> <<>>]
    /\ ret' = IF geojson = NullDoc THEN Threw("TypeError")
              ELSE [threw |-> FALSE, geojson |-> fixGeoJSON(geojson)]
    /\ UNCHANGED <<geojson, exportVars, loginVars, placeVars, response>>

Optimize ==
    \E options \in OptimizeOptions :
      \E keep \in IF options.simplifyTolerance = Undefined THEN {{}} ELSE KeepChoices :
        /\ call = NoCall
        /\ call' = [fn |-> "optimizeGeoJSONForExport", options |-> options]
        /\ ret' = IF geojson = NullDoc THEN Threw("TypeError")
                  ELSE optimizeGeoJSONForExport(geojson, options, keep)
        /\ UNCHANGED <<geojson, exportVars, loginVars, placeVars, response>>

Next == Validate \/ Fix \/ Optimize

Spec == Init /\ [][Next]_vars

---------------------------------------------------------------------------
(* Claims about validateGeoJSON *)

Validated == call.fn = "validateGeoJSON" /\ ~ret.threw
ValidatedCollection == Validated /\ geojson.type = "FeatureCollection"

\* the issues of one code reported for the feature at `index` (from 0)
IssuesFor(issues, code, index) ==
    Cardinality({i \in 1..Len(issues) : issues[i].code = code /\ issues[i].featureId = index})

HasCode(issues, code) == \E i \in 1..Len(issues) : issues[i].code = code

\* every ring of a Polygon or MultiPolygon geometry, polygon by polygon
AllRings(geometry) == Concat(geometry.coordinates)

\* at most 5 fractional decimal digits on either axis
FewerThanSixDecimals(p) == p[1] % 100 = 0 \/ p[2] % 100 = 0

OutOfRange(p) ==
    p[2] < Deg(-90) \/ p[2] > Deg(90) \/ p[1] < Deg(-180) \/ p[1] > Deg(180)

\* the positions the bounds and precision rules run over: the position(s) of
\* a Point or MultiPoint, the outer ring of a polygon
ExaminedPositions(geometry) ==
    IF geometry.type \in {"Point", "MultiPoint"} THEN geometry.coordinates[1][1]
    ELSE Concat([k \in 1..Len(geometry.coordinates) |-> geometry.coordinates[k][1]])

BoundsErrorIffOutOfRange(feature, index) ==
    feature.geometry.type \in allowedTypes =>
        ((\E k \in 1..Len(feature.geometry.coordinates) :
            \E j \in 1..Len(feature.geometry.coordinates[k]) :
                \E i \in 1..Len(feature.geometry.coordinates[k][j]) :
                    OutOfRange(feature.geometry.coordinates[k][j][i]))
         <=> IssuesFor(ret.errors, VALIDATION_CODES.COORDINATE_OUT_OF_BOUNDS, index) > 0)

\* C4: a position of a Point, of a MultiPoint or of any ring of a Polygon or
\* MultiPolygon that is out of range makes validateGeoJSON report
\* COORDINATE_OUT_OF_BOUNDS for the feature, and a geometry whose positions
\* are all within the closed ranges yields no such error.
C4_EveryPositionBoundsChecked ==
    ValidatedCollection =>
        \A i \in 1..Len(geojson.features) :
            BoundsErrorIffOutOfRange(geojson.features[i], i - 1)

RECURSIVE Sum(_)
Sum(s) == IF s = <<>> THEN 0 ELSE Head(s) + Sum(Tail(s))

C7_LargePlotOnlyForPointsOver4 ==
    ValidatedCollection =>
        \A i \in 1..Len(geojson.features) :
            LET feature == geojson.features[i]
                n == IssuesFor(ret.errors, VALIDATION_CODES.LARGE_PLOT_NEEDS_POLYGON, i - 1)
            IN  IF feature.geometry.type = "Point"
                   /\ feature.properties.Area # NoArea /\ feature.properties.Area > 4
                THEN n = 1 ELSE n = 0

C7_Witness ==
    /\ ValidatedCollection
    /\ Len(geojson.features) = 1
    /\ geojson.features[1].geometry = Point(pD)
    /\ geojson.features[1].properties.Area = 5
    /\ ret.errors = <<[code |-> VALIDATION_CODES.LARGE_PLOT_NEEDS_POLYGON,
                       message |-> "Plots larger than 4 hectares require polygon geometry, not a point",
                       featureId |-> 0, featureName |-> "Plot"]>>

---------------------------------------------------------------------------
(* Claims about fixGeoJSON *)

Fixed == call.fn = "fixGeoJSON" /\ ~ret.threw

\* C2: fixGeoJSON is idempotent: repairing the repaired collection returns it
\* unchanged (same features, rings, positions and order).
C2_FixIdempotent == Fixed => fixGeoJSON(ret.geojson) = ret.geojson

\* a repair that both rounded and closed a ring
C2_Witness ==
    /\ Fixed
    /\ Len(geojson.features) = 1
    /\ geojson.features[1].geometry = Polygon(<<<<pB, pC, pA, pC>>>>)
    /\ ret.geojson.features[1].geometry = Polygon(<<<<pA, pC, pA, pC, pA>>>>)

\* v is x at 6 decimals: a multiple of 1e-6 at most half a step away
IsRoundingOf(v, x) == v % 10 = 0 /\ v - x <= 5 /\ x - v <= 5

\* what C3 says of one ring and its repair
ClosedAfterRounding(in, out) ==
    /\ Len(out) \in {Len(in), Len(in) + 1}
    /\ \A n \in 1..Len(in) :
          IsRoundingOf(out[n][1], in[n][1]) /\ IsRoundingOf(out[n][2], in[n][2])
    /\ Len(out) = Len(in) + 1 => out[Len(out)] = out[1]
    /\ Len(out) > 0 => out[1] = out[Len(out)]
    /\ (Len(in) > 0 /\ out[1] = out[Len(in)]) => Len(out) = Len(in)

\* C3: each ring of a Polygon comes out as the rounded input ring, in order,
\* with one copy of the first position appended exactly when the rounded first
\* and last positions differ; nothing is removed or reordered, every non-empty
\* output ring is closed, and [[0,0],[1,0],[1,1],[0,1]] becomes
\* [[0,0],[1,0],[1,1],[0,1],[0,0]].
C3_CloseAfterRounding ==
    Fixed =>
        /\ Len(ret.geojson.features) = Len(geojson.features)
        /\ \A i \in 1..Len(geojson.features) :
              geojson.features[i].geometry.type = "Polygon" =>
                LET in == RingsOf(geojson.features[i].geometry)
                    out == RingsOf(ret.geojson.features[i].geometry)
                IN  /\ ret.geojson.features[i].geometry.type = "Polygon"
                    /\ Len(out) = Len(in)
                    /\ \A j \in 1..Len(in) : ClosedAfterRounding(in[j], out[j])
        /\ (Len(geojson.features) = 1
            /\ geojson.features[1].geometry = Polygon(<<unitSquare>>))
              => ret.geojson.features[1].geometry = Polygon(<<Append(unitSquare, <<0, 0>>)>>)

\* the ends differ as given and agree once rounded: nothing is appended
C3_Witness ==
    /\ Fixed
    /\ Len(geojson.features) = 1
    /\ geojson.features[1].geometry = Polygon(<<<<pB, pC, pC, pA>>>>)
    /\ ret.geojson.features[1].geometry = Polygon(<<<<pA, pC, pC, pA>>>>)

---------------------------------------------------------------------------
(* Claims about optimizeGeoJSONForExport *)

Optimized == call.fn = "optimizeGeoJSONForExport" /\ ~ret.threw

ThresholdOf(options) ==
    IF options.smallPlotThreshold = Undefined THEN 4 ELSE options.smallPlotThreshold

\* a Polygon feature whose declared area is at or below the threshold
SmallPolygon(feature, options) ==
    /\ feature.geometry.type = "Polygon"
    /\ feature.properties.Area # NoArea
    /\ feature.properties.Area <= ThresholdOf(options)

LargePolygon(feature, options) ==
    /\ feature.geometry.type = "Polygon"
    /\ feature.properties.Area # NoArea
    /\ feature.properties.Area > ThresholdOf(options)

IsConversionNote(change, name) == change[2] = name /\ change[3] = "\" from polygon to point"
IsSimplifiedNote(change, name) == change[1] = "Simplified polygon for \"" /\ change[2] = name

Names == {"Plot", "Square", "A", "B", NoName}

\* C8: with convertSmallToPoints, every Polygon feature whose declared area is
\* at or below smallPlotThreshold (default 4) comes out as a Point with exactly
\* one "polygon to point" change entry; no other feature, and no feature when
\* the option is off, is converted or gets such an entry.
C8_SmallPolygonsBecomePoints ==
    Optimized =>
        /\ \A i \in 1..Len(geojson.features) :
              ret.geojson.features[i].geometry.type =
                 IF call.options.convertSmallToPoints
                    /\ SmallPolygon(geojson.features[i], call.options)
                 THEN "Point" ELSE geojson.features[i].geometry.type
        /\ \A name \in Names :
              LET IsNote(change) == IsConversionNote(change, name)
                  IsSmall(feature) == /\ call.options.convertSmallToPoints
                                      /\ feature.properties.ProductionPlace = name
                                      /\ SmallPolygon(feature, call.options)
              IN  Count(ret.changes, IsNote) = Count(geojson.features, IsSmall)

\* C9: with both options set a small Polygon is converted and not simplified
\* (one entry, the conversion note), a Polygon above the threshold is
\* simplified (one "Simplified" note), and no feature gets two entries.
C9_ConversionBeforeSimplify ==
    (Optimized /\ call.options.convertSmallToPoints
               /\ call.options.simplifyTolerance = Tolerance) =>
        /\ \A i \in 1..Len(geojson.features) :
              /\ SmallPolygon(geojson.features[i], call.options)
                    => ret.geojson.features[i].geometry.type = "Point"
              /\ LargePolygon(geojson.features[i], call.options)
                    => ret.geojson.features[i].geometry.type = "Polygon"
        /\ \A name \in Names :
              LET IsConv(change) == IsConversionNote(change, name)
                  IsSimp(change) == IsSimplifiedNote(change, name)
                  IsSmall(feature) == /\ feature.properties.ProductionPlace = name
                                      /\ SmallPolygon(feature, call.options)
                  IsLarge(feature) == /\ feature.properties.ProductionPlace = name
                                      /\ LargePolygon(feature, call.options)
                  IsPolygon(feature) == /\ feature.properties.ProductionPlace = name
                                        /\ feature.geometry.type = "Polygon"
              IN  /\ Count(ret.changes, IsConv) = Count(geojson.features, IsSmall)
                  /\ Count(ret.changes, IsSimp) >= Count(geojson.features, IsLarge)
                  /\ Count(ret.changes, IsConv) + Count(ret.changes, IsSimp)
                        <= Count(geojson.features, IsPolygon)

---------------------------------------------------------------------------
(* generateExport and its helpers (export service) *)

\* a prisma.productionPlace row as findMany returns it, with its supplier;
\* createdAt is kept as <<date, time>> of its ISO string
ProductionPlace(name, country, areaHectares, geometryType, coordinates, supplierName) ==
    [name |-> name, country |-> country, areaHectares |-> areaHectares,
     geometryType |-> geometryType, coordinates |-> coordinates,
     createdAt |-> <<"2025-01-15", "10:00:00.000Z">>,
     supplier |-> [name |-> supplierName]]

\* a coordinates column that holds a bare array of positions, not a geometry
\* object: read as a geometry its type and its coordinates are undefined
RawArray(ps) == [type |-> "undefined", coordinates |-> << <<ps>> >>]

RECURSIVE MinOf(_, _)
MinOf(s, axis) ==
    IF Len(s) = 1 THEN s[1][axis]
    ELSE LET m == MinOf(Tail(s), axis) IN IF Head(s)[axis] < m THEN Head(s)[axis] ELSE m

RECURSIVE MaxOf(_, _)
MaxOf(s, axis) ==
    IF Len(s) = 1 THEN s[1][axis]
    ELSE LET m == MaxOf(Tail(s), axis) IN IF Head(s)[axis] > m THEN Head(s)[axis] ELSE m

\* (min + max) / 2, to the model's 1e-7 degree
Mid(a, b) == (a \div 2) + (b \div 2) + (((a % 2) + (b % 2)) \div 2)

\* the bounding-box midpoint of coords; without positions the box stays
\* (Infinity, -Infinity) and the midpoint is NaN
bboxMidpoint(coords) ==
    IF coords = <<>> THEN <<NaN, NaN>>
    ELSE <<Mid(MinOf(coords, 1), MaxOf(coords, 1)), Mid(MinOf(coords, 2), MaxOf(coords, 2))>>

isSmallPolygonPlaceMutant(place, options) ==
    /\ place.geometryType = "POLYGON"
    /\ place.areaHectares <= 4

isSmallPolygonPlace(place, options) ==
    /\ options.convertSmallToPoints
    /\ place.geometryType = "POLYGON"
    /\ place.areaHectares <= 4

\* place.coordinates.coordinates[0] and coords.forEach(([lng, lat]) => ...):
\* a TypeError unless coordinates[0] is an array of arrays
toFeatureThrows(place, options) ==
    /\ isSmallPolygonPlace(place, options)
    /\ CASE place.coordinates.type = "Polygon" -> RingsOf(place.coordinates) = <<>>
         [] place.coordinates.type = "MultiPolygon" -> place.coordinates.coordinates = <<>>
         [] OTHER -> TRUE

\* the body of productionPlaces.map(place => ...) in generateExport; the
\* elements of a MultiPolygon's coordinates[0] are rings, whose entries are
\* no numbers (NaN)
toFeature(place, options) ==
    Feature(place.name, place.areaHectares, place.country,
            IF isSmallPolygonPlace(place, options)
            THEN IF place.coordinates.type = "Polygon"
                 THEN Point(bboxMidpoint(RingsOf(place.coordinates)[1]))
                 ELSE Point(<<NaN, NaN>>)
            ELSE place.coordinates)

validateExportFeature(feature) ==
    IF feature.geometry = NoGeometry
    THEN <<[message |-> "Missing geometry", featureName |-> feature.properties.ProductionPlace]>>
    ELSE IF feature.geometry.type = "LineString"
    THEN <<[message |-> "LineString geometry not allowed",
            featureName |-> feature.properties.ProductionPlace]>>
    ELSE <<>>

validateExportGeoJSON(doc) ==
    LET errors == Concat([i \in 1..Len(doc.features) |-> validateExportFeature(doc.features[i])])
    IN  [valid |-> errors = <<>>, errors |-> errors]

\* validation.errors.map(e => ({ name: e.featureName || 'Unknown', error: e.message }))
reportErrors(validation) ==
    [i \in 1..Len(validation.errors) |->
        [name |-> IF validation.errors[i].featureName = NoName THEN "Unknown"
                  ELSE validation.errors[i].featureName,
         error |-> validation.errors[i].message]]

RECURSIVE totalArea(_)
totalArea(features) ==
    IF features = <<>> THEN 0
    ELSE (IF Head(features).properties.Area = NoArea THEN 0 ELSE Head(features).properties.Area)
         + totalArea(Tail(features))

byCountryMutant(features) ==
    [country \in {features[i].properties.ProducerCountry : i \in 1..Len(features)} |-> 1]

byCountry(features) ==
    [country \in {features[i].properties.ProducerCountry : i \in 1..Len(features)} |->
        Cardinality({i \in 1..Len(features) : features[i].properties.ProducerCountry = country})]

exportSummary(features) ==
    [totalArea |-> totalArea(features),
     totalPlaces |-> Len(features),
     byCountry |-> byCountry(features)]

\* (geometry.coordinates as number[][][])[0].slice(0, -1) on a Polygon without rings
getCoordinatesFromGeometryThrows(geometry) ==
    geometry.type = "Polygon" /\ RingsOf(geometry) = <<>>

getCoordinatesFromGeometry(geometry) ==
    CASE geometry.type = "Point" -> <<PointOf(geometry)>>
      [] geometry.type = "Polygon" ->
            SubSeq(RingsOf(geometry)[1], 1, Len(RingsOf(geometry)[1]) - 1)
      [] OTHER -> <<>>

\* num.toFixed(6), in 1e-6 degree: the nearest, a tie away from zero
toFixed6(num) ==
    IF num = NaN THEN NaN
    ELSE IF num < 0 THEN 0 - (((0 - num) + 5) \div 10)
    ELSE (num + 5) \div 10

\* geojson.features.find(f => f.properties?.ProductionPlace === place.name):
\* the index of the first such feature, 0 when there is none
findFeature(doc, name) ==
    LET found == {i \in 1..Len(doc.features) : doc.features[i].properties.ProductionPlace = name}
    IN  IF found = {} THEN 0 ELSE CHOOSE i \in found : \A j \in found : i <= j

\* the Coordinates cell: up to three "lat,lng" pairs and "..." when there are more
coordinatesCell(doc, place) ==
    LET k == findFeature(doc, place.name)
        coords == IF k = 0 \/ doc.features[k].geometry = NoGeometry THEN <<>>
                  ELSE getCoordinatesFromGeometry(doc.features[k].geometry)
    IN  [pairs |-> [c \in 1..(IF Len(coords) > 3 THEN 3 ELSE Len(coords)) |->
                       <<toFixed6(coords[c][2]), toFixed6(coords[c][1])>>],
         more |-> Len(coords) > 3]

summaryRowThrows(doc, place) ==
    LET k == findFeature(doc, place.name)
    IN  /\ k # 0
        /\ doc.features[k].geometry # NoGeometry
        /\ getCoordinatesFromGeometryThrows(doc.features[k].geometry)

\* the rows of summary.csv under its header line
generateSummaryCSV(places, doc) ==
    [i \in 1..Len(places) |->
        [ProductionPlace |-> places[i].name,
         Supplier |-> places[i].supplier.name,
         Country |-> places[i].country,
         Area |-> places[i].areaHectares,
         GeometryType |-> places[i].geometryType,
         Coordinates |-> coordinatesCell(doc, places[i]),
         DateCollected |-> places[i].createdAt[1],
         ValidationStatus |-> "VALID"]]

\* new Date().toISOString() when the report is written
Now == "2025-02-01T00:00:00.000Z"

\* the lines of validation_report.txt (the check mark that opens each
\* requirement line is left out)
generateValidationReport(validation, doc) ==
    <<  <<"EUDR GeoJSON Validation Report">>,
        <<"==============================">>,
        <<"Generated: ", Now>>,
        <<"Features: ", ToString(Len(doc.features))>>,
        <<"Status: ", IF validation.valid THEN "VALID" ELSE "INVALID">>,
        <<"">>  >>
    \o (IF Len(validation.errors) > 0
        THEN << <<"Errors:">>, <<"-------">> >>
             \o [i \in 1..Len(validation.errors) |->
                    <<"- ", reportErrors(validation)[i].name, ": ",
                      validation.errors[i].message>>]
             \o << <<"">> >>
        ELSE <<>>)
    \o <<  <<"EUDR Requirements Check:">>,
           <<"------------------------">>,
           <<"Coordinate system: WGS84 (EPSG:4326)">>,
           <<"Precision: 6+ decimal places">>,
           <<"Latitude range: -90 to +90">>,
           <<"Longitude range: -180 to +180">>,
           <<"Polygon closure: First = Last point">>,
           <<"No self-intersections">>,
           <<"No polygon holes">>,
           <<"No LineString geometry">>,
           <<"">>,
           <<"File ready for EU Information System upload.">>  >>

\* the entries of audit_log.json
generateAuditLog(places) ==
    [i \in 1..Len(places) |->
        [name |-> places[i].name,
         supplierName |-> places[i].supplier.name,
         areaHectares |-> places[i].areaHectares,
         geometryType |-> places[i].geometryType,
         country |-> places[i].country,
         createdAt |-> places[i].createdAt]]

\* the files array handed to createZipArchive
exportFiles(places, doc, validation, options) ==
    [names |-> <<"geolocation.geojson", "summary.csv", "validation_report.txt">>
               \o (IF options.includeAuditLog THEN <<"audit_log.json">> ELSE <<>>),
     geojson |-> doc,
     summaryCSV |-> generateSummaryCSV(places, doc),
     validationReport |-> generateValidationReport(validation, doc),
     auditLog |-> IF options.includeAuditLog THEN generateAuditLog(places) ELSE <<>>]

\* the places where generateExport awaits something that can reject
Faults == {"none", "findMany", "createZipArchive", "uploadToR2", "geoJSONExport.create"}

\* generateExport did not return: what it had uploaded and stored by then
ExportThrew(error, uploaded) ==
    [threw |-> TRUE, error |-> error, uploaded |-> uploaded, created |-> <<>>]

\* the collection generateExport builds from the rows
mapPlaces(places, options) ==
    FeatureCollection([i \in 1..Len(places) |-> toFeature(places[i], options)])

\* options.convertSmallToPoints || options.simplifyTolerance
\*    ? optimizeGeoJSONForExport(geojson, {...}) : { geojson, changes: [] }
optimizeForExport(doc, options, keep) ==
    IF options.convertSmallToPoints
       \/ (options.simplifyTolerance # Undefined /\ options.simplifyTolerance # 0)
    THEN optimizeGeoJSONForExport(doc,
            [convertSmallToPoints |-> options.convertSmallToPoints,
             simplifyTolerance |-> options.simplifyTolerance,
             smallPlotThreshold |-> Undefined], keep)
    ELSE [threw |-> FALSE, geojson |-> doc, changes |-> <<>>]

\* generateExport on the rows `places`; `keep` is turf.simplify's choice,
\* `fault` the awaited call that rejects, `key` the object key of the archive.
\* Sizes in bytes are left out.
generateExport(places, options, keep, fault, key) ==
    IF fault = "findMany" THEN ExportThrew("Error", <<>>)
    ELSE IF \E i \in 1..Len(places) : toFeatureThrows(places[i], options)
    THEN ExportThrew("TypeError", <<>>)
    ELSE
    LET features == mapPlaces(places, options).features
        optimized == optimizeForExport(mapPlaces(places, options), options, keep)
    IN  IF optimized.threw THEN ExportThrew("Error", <<>>)
        ELSE
        LET optimizedGeojson == optimized.geojson
            validation == validateExportGeoJSON(optimizedGeojson)
            archive == [key |-> key,
                        files |-> exportFiles(places, optimizedGeojson, validation, options)]
            errorCount == Len(validation.errors)
        IN  IF \E i \in 1..Len(places) : summaryRowThrows(optimizedGeojson, places[i])
            THEN ExportThrew("TypeError", <<>>)
            ELSE IF fault \in {"createZipArchive", "uploadToR2"}
            THEN ExportThrew("Error", <<>>)
            ELSE IF fault = "geoJSONExport.create"
            THEN ExportThrew("Error", <<archive>>)
            ELSE [threw |-> FALSE,
                  uploaded |-> <<archive>>,
                  created |->
                     <<[fileUrl |-> key,
                        validationReport |->
                           [validFeatures |-> IF validation.valid THEN Len(features) ELSE 0,
                            invalidFeatures |-> errorCount,
                            errors |-> reportErrors(validation),
                            optimizations |-> optimized.changes]]>>,
                  result |->
                     [success |-> TRUE,
                      downloadUrl |-> key,
                      validationReport |->
                         [validFeatures |-> IF validation.valid THEN Len(features)
                                            ELSE Len(features) - errorCount,
                          invalidFeatures |-> errorCount,
                          errors |-> reportErrors(validation)],
                      summary |-> exportSummary(features)]]

---------------------------------------------------------------------------
(* POST /api/exports *)

\* simplifyTolerance: z.number().min(0).max(0.001)
MaxSimplifyTolerance == 10000

\* exportSchema.parse(body) throws a ZodError
exportSchemaRejects(body) ==
    /\ body.simplifyTolerance # Undefined
    /\ (body.simplifyTolerance < 0 \/ body.simplifyTolerance > MaxSimplifyTolerance)

---------------------------------------------------------------------------
(* The rows an export reads *)

MaxPlaces == 2

closedRing == <<pD, pA, pB, pD>>
openRing == <<pD, pA, pB, pE>>
longRing == <<pD, pA, pB, pE, pD>>

Places ==
    {\* submitted through the supplier portal: geometry objects
     ProductionPlace("A", "BR", 2, "POLYGON", Polygon(<<closedRing>>), "Fazenda"),
     ProductionPlace("B", "CO", 5, "POLYGON", Polygon(<<openRing>>), "Finca"),
     ProductionPlace("C", "BR", 5, "POLYGON", Polygon(<<longRing>>), "Fazenda"),
     ProductionPlace("A", "BR", 2, "POINT", Point(pD), "Fazenda"),
     ProductionPlace("D", "CO", 5, "POINT", Point(pC), "Finca"),
     \* created on the dashboard: the bare position array
     ProductionPlace("E", "BR", 3, "POLYGON", RawArray(closedRing), "Fazenda"),
     \* a portal polygon whose geometryType alone was edited afterwards
     ProductionPlace("F", "CO", 2, "POINT", Polygon(<<closedRing>>), "Finca"),
     \* coordinates written unchecked by ProductionPlaceService.update
     ProductionPlace("G", "BR", 1, "POINT", LineString(<<pD, pA>>), "Fazenda"),
     ProductionPlace("H", "CO", 5, "POINT", Polygon(<<>>), "Finca")}

ExportBodies ==
    [convertSmallToPoints : BOOLEAN,
     simplifyTolerance : {Undefined, 0, Tolerance, Micro(10000)},
     includeAuditLog : BOOLEAN]

---------------------------------------------------------------------------
(* ExportSpec: one POST /api/exports over a client's production places *)

ExportInit ==
    /\ geojson = NoDocument
    /\ call = NoCall
    /\ ret = <<>>
    /\ productionPlaces \in SeqsUpTo(Places, MaxPlaces)
    /\ exportOptions = <<>>
    /\ exportResult = <<>>
    /\ r2Objects = <<>>
    /\ geoJSONExports = <<>>
    /\ LoginIdle
    /\ PlacesIdle
    /\ response = NoResponse

\* the catch of the route handler: 400 for a ZodError, 500 for anything else
catchResponseMutant(error) ==
    [status |-> 400, body |-> [error |-> "Validation error"]]
catchResponse(error) ==
    IF error = "ZodError"
    THEN [status |-> 400, body |-> [error |-> "Validation error"]]
    ELSE [status |-> 500, body |-> [error |-> "Failed to generate export"]]

\* the route handler: requireSession, exportSchema.parse, generateExport, and
\* the catch.  call keeps what the environment did: whether there was a
\* session, which awaited call rejected, what turf.simplify kept.
PostExports ==
    \E session \in BOOLEAN, body \in ExportBodies, fault \in Faults :
      \E keep \in IF body.simplifyTolerance = Tolerance THEN KeepChoices ELSE {{}} :
        /\ call = NoCall
        /\ call' = [fn |-> "POST /api/exports", options |-> body,
                    session |-> session, fault |-> fault, keep |-> keep]
        /\ IF ~session
           THEN /\ exportResult' = catchResponse("Error")
                /\ UNCHANGED <<exportOptions, r2Objects, geoJSONExports>>
           ELSE IF exportSchemaRejects(body)
           THEN /\ exportResult' = catchResponse("ZodError")
                /\ UNCHANGED <<exportOptions, r2Objects, geoJSONExports>>
           ELSE LET out == generateExport(productionPlaces, body, keep, fault,
                                          Len(r2Objects) + 1)
                IN  /\ exportOptions' = body
                    /\ r2Objects' = r2Objects \o out.uploaded
                    /\ geoJSONExports' = geoJSONExports \o out.created
                    /\ exportResult' =
                          IF out.threw THEN catchResponse(out.error)
                          ELSE [status |-> 200, body |-> out.result]
        /\ UNCHANGED <<geojson, ret, productionPlaces, loginVars, placeVars, response>>

ExportNext == PostExports

ExportSpec == ExportInit /\ [][ExportNext]_vars

---------------------------------------------------------------------------
(* Claims about generateExport *)

Exported == call.fn = "POST /api/exports" /\ exportResult.status = 200

\* the archive of the export that was answered
ExportedFiles == r2Objects[Len(r2Objects)].files

HasLine(lines, line) == \E i \in 1..Len(lines) : lines[i] = line

\* C10: the export's validation outcome is valid exactly when validateGeoJSON
\* reports no error for the optimized collection, and the errors recorded in
\* the validation report are the errors validateGeoJSON reports for it.
C10_ExportValidatesWithGeometryValidator ==
    Exported =>
        LET validator == validateGeoJSON(ExportedFiles.geojson)
            report == exportResult.body.validationReport
        IN  /\ ~validator.threw
            /\ HasLine(ExportedFiles.validationReport, <<"Status: ", "VALID">>)
                  <=> validator.errors = <<>>
            /\ Len(report.errors) = Len(validator.errors)
            /\ \A i \in 1..Len(validator.errors) :
                  /\ report.errors[i].error = validator.errors[i].message
                  /\ report.errors[i].name =
                        IF validator.errors[i].featureName = NoName THEN "Unknown"
                        ELSE validator.errors[i].featureName

Posted == call.fn = "POST /api/exports"

\* generateExport was entered: there was a session and the body was accepted
Generating == Posted /\ call.session /\ ~exportSchemaRejects(call.options)

MappingFails == \E i \in 1..Len(productionPlaces) :
                    toFeatureThrows(productionPlaces[i], call.options)

OptimizationFails ==
    /\ ~MappingFails
    /\ optimizeForExport(mapPlaces(productionPlaces, call.options),
                         call.options, call.keep).threw

RenderingFails ==
    /\ ~MappingFails
    /\ ~OptimizationFails
    /\ \E i \in 1..Len(productionPlaces) :
          summaryRowThrows(optimizeForExport(mapPlaces(productionPlaces, call.options),
                                             call.options, call.keep).geojson,
                           productionPlaces[i])

PackagingFails == call.fault = "createZipArchive"

\* C11: when mapping, optimization, validation, rendering or packaging fails,
\* no archive is uploaded, no export record is created, no result is returned
\* and the caller gets the generic 500, which is neither the 400 of a rejected
\* body nor the 200 of an export of invalid data.
C11_ExportAllOrNothing ==
    /\ (Generating /\ (MappingFails \/ OptimizationFails \/ RenderingFails \/ PackagingFails))
          => /\ r2Objects = <<>>
             /\ geoJSONExports = <<>>
             /\ exportResult = [status |-> 500, body |-> [error |-> "Failed to generate export"]]
    /\ (Posted /\ call.session /\ exportSchemaRejects(call.options))
          => exportResult.status = 400
    /\ Exported => exportResult.body.success

C11_Witness ==
    /\ Generating
    /\ call.fault = "none"
    /\ OptimizationFails
    /\ exportResult.status = 500
    /\ r2Objects = <<>>
    /\ geoJSONExports = <<>>

\* every place has a geometry that can be processed and nothing awaited rejects
Processable ==
    /\ Generating
    /\ call.fault = "none"
    /\ ~MappingFails /\ ~OptimizationFails /\ ~RenderingFails

\* the collection the export validates
OptimizedCollection ==
    optimizeForExport(mapPlaces(productionPlaces, call.options), call.options, call.keep).geojson

ErrorName(featureName) == IF featureName = NoName THEN "Unknown" ELSE featureName

\* C12: when every place can be processed but some features fail validation,
\* the export still uploads the archive, creates the record and returns
\* success = true, every failure is listed in validationReport.errors, and
\* the report text has the status line INVALID and one "- <name>: <message>"
\* line per error.
C12_InvalidExportStillProducesArtifact ==
    Processable =>
        LET validator == validateGeoJSON(OptimizedCollection)
        IN  (~validator.threw /\ validator.errors # <<>>) =>
                /\ Exported
                /\ exportResult.body.success
                /\ Len(r2Objects) = 1
                /\ Len(geoJSONExports) = 1
                /\ \A i \in 1..Len(validator.errors) :
                      \E j \in 1..Len(exportResult.body.validationReport.errors) :
                         exportResult.body.validationReport.errors[j].name =
                            ErrorName(validator.errors[i].featureName)
                /\ HasLine(ExportedFiles.validationReport, <<"Status: ", "INVALID">>)
                /\ \A j \in 1..Len(exportResult.body.validationReport.errors) :
                      HasLine(ExportedFiles.validationReport,
                              <<"- ", exportResult.body.validationReport.errors[j].name, ": ",
                                exportResult.body.validationReport.errors[j].error>>)

---------------------------------------------------------------------------
(* Claims about validateGeoJSON: exceptions, independence, early exits *)

ValidateCalled == call.fn = "validateGeoJSON"

\* C13: for every FeatureCollection, whatever its features' geometry kinds,
\* numbers of rings (none included) and numbers of positions per ring,
\* validateGeoJSON returns an outcome and never ends in an exception.
C13_ValidateNeverThrows ==
    (ValidateCalled /\ geojson.type = "FeatureCollection") => ~ret.threw

\* the issues a feature produces when it is validated alone, tagged with the
\* index it has in the collection
AloneIssues(feature, index, kind) ==
    LET alone == validateGeoJSON(FeatureCollection(<<feature>>))
        issues == IF alone.threw THEN <<>>
                  ELSE IF kind = "errors" THEN alone.errors ELSE alone.warnings
    IN  [k \in 1..Len(issues) |-> [issues[k] EXCEPT !.featureId = index]]

\* C14: the errors and the warnings of a collection are the concatenation, in
\* feature order, of the issues of each feature validated alone, tagged with
\* that feature's index and name; no feature stops the others' evaluation.
C14_IssuesAdditiveAcrossFeatures ==
    (ValidateCalled /\ geojson.type = "FeatureCollection") =>
        /\ ~ret.threw
        /\ ret.errors = Concat([i \in 1..Len(geojson.features) |->
                                  AloneIssues(geojson.features[i], i - 1, "errors")])
        /\ ret.warnings = Concat([i \in 1..Len(geojson.features) |->
                                    AloneIssues(geojson.features[i], i - 1, "warnings")])
        /\ \A k \in 1..Len(ret.errors) :
              ret.errors[k].featureName =
                 geojson.features[ret.errors[k].featureId + 1].properties.ProductionPlace

IssuesOf(issues, index) == Cardinality({k \in 1..Len(issues) : issues[k].featureId = index})

\* C15: a feature without geometry yields exactly one error, INVALID_GEOMETRY,
\* and nothing else; a feature whose geometry is neither Point, MultiPoint,
\* Polygon nor MultiPolygon yields exactly one error, LINESTRING_NOT_ALLOWED,
\* and nothing else.
C15_FeatureEarlyExits ==
    (Validated /\ geojson.type = "FeatureCollection") =>
        \A i \in 1..Len(geojson.features) :
            LET geometry == geojson.features[i].geometry
            IN  /\ geometry = NoGeometry =>
                      /\ IssuesOf(ret.errors, i - 1) = 1
                      /\ IssuesFor(ret.errors, VALIDATION_CODES.INVALID_GEOMETRY, i - 1) = 1
                      /\ IssuesOf(ret.warnings, i - 1) = 0
                /\ (geometry # NoGeometry
                     /\ geometry.type \notin {"Point", "MultiPoint", "Polygon", "MultiPolygon"}) =>
                      /\ IssuesOf(ret.errors, i - 1) = 1
                      /\ IssuesFor(ret.errors, VALIDATION_CODES.LINESTRING_NOT_ALLOWED, i - 1) = 1
                      /\ IssuesOf(ret.warnings, i - 1) = 0

\* an out-of-range LineString of a 5 ha plot next to a feature without geometry
C15_Witness ==
    /\ Validated
    /\ Len(geojson.features) = 2
    /\ geojson.features[1] = Feature("A", 5, "BR", LineString(<<pD, pC>>))
    /\ geojson.features[2].geometry = NoGeometry
    /\ Len(ret.errors) = 2
    /\ ret.errors[1].code = VALIDATION_CODES.LINESTRING_NOT_ALLOWED
    /\ ret.errors[2].code = VALIDATION_CODES.INVALID_GEOMETRY

\* C16: a null document, or one whose type is not FeatureCollection, gets
\* valid = false with exactly one error, INVALID_GEOJSON, no warning, and none
\* of its features is evaluated; an empty FeatureCollection is valid with no
\* errors.
C16_StructuralErrorIsTerminal ==
    ValidateCalled =>
        /\ geojson.type # "FeatureCollection" =>
              /\ ~ret.threw
              /\ ~ret.valid
              /\ Len(ret.errors) = 1
              /\ ret.errors[1].code = VALIDATION_CODES.INVALID_GEOJSON
              /\ ret.warnings = <<>>
        /\ geojson = FeatureCollection(<<>>) =>
              /\ ~ret.threw
              /\ ret.valid
              /\ ret.errors = <<>>

\* a mistyped document whose one feature would be out of bounds
C16_Witness ==
    /\ ValidateCalled
    /\ geojson = MistypedDoc
    /\ ~ret.valid
    /\ Len(ret.errors) = 1
    /\ ret.errors[1].code = VALIDATION_CODES.INVALID_GEOJSON

---------------------------------------------------------------------------
(* Claims about fixGeoJSON: rounding and pass-through *)

\* num at 6 decimals, the nearest, a tie to the value of larger magnitude
roundHalfAwayFromZero(num) ==
    IF num < 0 THEN 0 - ((((0 - num) + 5) \div 10) * 10)
    ELSE ((num + 5) \div 10) * 10

\* C17: fixGeoJSON rounds every coordinate component of every Polygon ring to
\* 6 decimals, half away from zero, for negative and for positive values.
C17_RoundsHalfAwayFromZero ==
    Fixed =>
        \A i \in 1..Len(geojson.features) :
            geojson.features[i].geometry.type = "Polygon" =>
                \A j \in 1..Len(RingsOf(geojson.features[i].geometry)) :
                    \A k \in 1..Len(RingsOf(geojson.features[i].geometry)[j]) :
                        \A axis \in 1..2 :
                            RingsOf(ret.geojson.features[i].geometry)[j][k][axis] =
                               roundHalfAwayFromZero(
                                  RingsOf(geojson.features[i].geometry)[j][k][axis])

C19_FixRoundsPoints ==
    Fixed =>
        \A i \in 1..Len(geojson.features) :
            geojson.features[i].geometry.type = "Point" =>
                /\ ret.geojson.features[i].geometry.type = "Point"
                /\ \A axis \in 1..2 :
                      IsRoundingOf(PointOf(ret.geojson.features[i].geometry)[axis],
                                   PointOf(geojson.features[i].geometry)[axis])

---------------------------------------------------------------------------
(* Claims about optimizeGeoJSONForExport: what it leaves alone *)

\* a feature the optimizer must not touch: not a Polygon, or, when no
\* tolerance is set, a Polygon whose area is absent or above the threshold
OutsideOptimization(feature, options) ==
    \/ feature.geometry.type # "Polygon"
    \/ /\ options.simplifyTolerance = Undefined
       /\ (feature.properties.Area = NoArea \/ feature.properties.Area > ThresholdOf(options))

\* C20: a feature that is not a Polygon, and with no tolerance set a Polygon
\* failing the area test, is returned unchanged at its index with no change
\* entry; the output has as many features as the input; with conversion off
\* and no tolerance the features are the input's and changes is empty.
C20_OptimizerLeavesOthersAlone ==
    Optimized =>
        /\ Len(ret.geojson.features) = Len(geojson.features)
        /\ \A i \in 1..Len(geojson.features) :
              OutsideOptimization(geojson.features[i], call.options)
                 => ret.geojson.features[i] = geojson.features[i]
        /\ \A name \in Names :
              LET Named(change) == change[2] = name
                  Eligible(feature) == /\ feature.properties.ProductionPlace = name
                                       /\ ~OutsideOptimization(feature, call.options)
              IN  Count(ret.changes, Named) <= Count(geojson.features, Eligible)
        /\ (~call.options.convertSmallToPoints /\ call.options.simplifyTolerance = Undefined)
              => /\ ret.geojson.features = geojson.features
                 /\ ret.changes = <<>>

\* conversion is on and a closed 5 ha Polygon stays as it is
C20_Witness ==
    /\ Optimized
    /\ call.options.convertSmallToPoints
    /\ call.options.simplifyTolerance = Undefined
    /\ call.options.smallPlotThreshold = Undefined
    /\ Len(geojson.features) = 1
    /\ geojson.features[1] = Feature("Plot", 5, "BR", Polygon(<<<<pA, pB, pC, pA>>>>))
    /\ ret.geojson.features[1] = geojson.features[1]
    /\ ret.changes = <<>>

\* C21: every feature optimizeGeoJSONForExport returns, a converted and a
\* simplified one included, has the properties (place name, declared area,
\* producer country) of the input feature at the same index.
C21_OptimizerKeepsProperties ==
    Optimized =>
        \A i \in 1..Len(geojson.features) :
            ret.geojson.features[i].properties = geojson.features[i].properties

---------------------------------------------------------------------------
(* Claims about the bounds rule and about repair followed by validation *)

\* the number of axes on which a position is out of range
OutOfRangeAxes(p) ==
    (IF p[1] < Deg(-180) \/ p[1] > Deg(180) THEN 1 ELSE 0)
    + (IF p[2] < Deg(-90) \/ p[2] > Deg(90) THEN 1 ELSE 0)

\* C25: every examined position gives one COORDINATE_OUT_OF_BOUNDS error per
\* axis that is out of range (0, 1 or 2): one in-range Point with one Point
\* out of range on one axis is invalid with exactly one such error, a Point
\* out of range on both axes gives two.
C25_BoundsErrorPerAxis ==
    (Validated /\ geojson.type = "FeatureCollection") =>
        \A i \in 1..Len(geojson.features) :
            geojson.features[i].geometry.type \in {"Point", "MultiPoint", "Polygon", "MultiPolygon"} =>
                LET examined == ExaminedPositions(geojson.features[i].geometry)
                IN  IssuesFor(ret.errors, VALIDATION_CODES.COORDINATE_OUT_OF_BOUNDS, i - 1)
                       = Sum([k \in 1..Len(examined) |-> OutOfRangeAxes(examined[k])])

\* an in-range Point and a Point whose longitude is -200: one error; a Point
\* at (200, 95): two
C25_Witness ==
    /\ Validated
    /\ \/ /\ Len(geojson.features) = 2
          /\ geojson.features[1].geometry = Point(pD)
          /\ geojson.features[2].geometry = Point(pC)
          /\ ~ret.valid
          /\ IssuesFor(ret.errors, VALIDATION_CODES.COORDINATE_OUT_OF_BOUNDS, 0) = 0
          /\ IssuesFor(ret.errors, VALIDATION_CODES.COORDINATE_OUT_OF_BOUNDS, 1) = 1
       \/ /\ Len(geojson.features) = 1
          /\ geojson.features[1].geometry = Point(pF)
          /\ IssuesFor(ret.errors, VALIDATION_CODES.COORDINATE_OUT_OF_BOUNDS, 0) = 2

\* the POLYGON_NOT_CLOSED errors validateGeoJSON reports for the Polygon
\* features of a collection
NotClosedErrors(doc, outcome) ==
    {k \in 1..Len(outcome.errors) :
        /\ outcome.errors[k].code = VALIDATION_CODES.POLYGON_NOT_CLOSED
        /\ doc.features[outcome.errors[k].featureId + 1].geometry.type = "Polygon"}

EveryPolygonRingHasAPosition(doc) ==
    \A i \in 1..Len(doc.features) :
        doc.features[i].geometry.type = "Polygon" =>
            \A j \in 1..Len(RingsOf(doc.features[i].geometry)) :
                Len(RingsOf(doc.features[i].geometry)[j]) > 0

\* C27: for a collection whose Polygon rings all have a position,
\* validateGeoJSON of the repaired collection reports no POLYGON_NOT_CLOSED
\* error for a Polygon feature.
C27_RepairedPolygonsAreClosed ==
    (Fixed /\ EveryPolygonRingHasAPosition(geojson)) =>
        LET outcome == validateGeoJSON(ret.geojson)
        IN  ~outcome.threw => NotClosedErrors(ret.geojson, outcome) = {}

\* an unclosed ring that the validator rejects before the repair and not after
C27_Witness ==
    /\ Fixed
    /\ Len(geojson.features) = 1
    /\ geojson.features[1].geometry = Polygon(<<<<pB, pC, pA, pC>>>>)
    /\ NotClosedErrors(geojson, validateGeoJSON(geojson)) # {}
    /\ ~validateGeoJSON(ret.geojson).threw
    /\ NotClosedErrors(ret.geojson, validateGeoJSON(ret.geojson)) = {}

---------------------------------------------------------------------------
(* Claims about what generateExport maps, counts and writes *)

\* the options the answered export ran with
ToleranceSet == call.options.simplifyTolerance # Undefined /\ call.options.simplifyTolerance # 0

\* p is the middle of the bounding box of the positions of ring, to the
\* model's 1e-7 degree
IsBoxMidpoint(p, ring) ==
    \A axis \in {1, 2} :
        \E lo, hi \in {ring[k][axis] : k \in 1..Len(ring)} :
            /\ \A k \in 1..Len(ring) : lo <= ring[k][axis] /\ ring[k][axis] <= hi
            /\ 2 * p[axis] - (lo + hi) \in {-1, 0, 1}

OptimizationNoteFor(name) ==
    \E k \in 1..Len(geoJSONExports[Len(geoJSONExports)].validationReport.optimizations) :
        geoJSONExports[Len(geoJSONExports)].validationReport.optimizations[k][2] = name

PlacesOf(country) ==
    {i \in 1..Len(productionPlaces) : productionPlaces[i].country = country}

\* C23: the summary counts the mapped places, not the optimized features:
\* totalArea is the sum of the places' declared areas, totalPlaces their
\* number, byCountry their number per country, whatever convertSmallToPoints
\* and simplifyTolerance are; the byCountry counts add up to totalPlaces.
C23_SummaryFromMappedPlaces ==
    Exported =>
        LET summary == exportResult.body.summary
            countries == {productionPlaces[i].country : i \in 1..Len(productionPlaces)}
            ordered == CHOOSE seq \in [1..Cardinality(countries) -> countries] :
                          \A c \in countries : \E k \in DOMAIN seq : seq[k] = c
        IN  /\ summary.totalArea
                  = Sum([i \in 1..Len(productionPlaces) |-> productionPlaces[i].areaHectares])
            /\ summary.totalPlaces = Len(productionPlaces)
            /\ DOMAIN summary.byCountry = countries
            /\ \A c \in countries : summary.byCountry[c] = Cardinality(PlacesOf(c))
            /\ Sum([k \in 1..Cardinality(countries) |-> summary.byCountry[ordered[k]]])
                  = summary.totalPlaces

\* two places of one country, one of them converted to a Point
C23_Witness ==
    /\ Exported
    /\ Len(productionPlaces) = 2
    /\ productionPlaces[1].country = productionPlaces[2].country
    /\ call.options.convertSmallToPoints
    /\ OptimizationNoteFor(NoName) \/ \E i \in 1..2 : OptimizationNoteFor(productionPlaces[i].name)
    /\ exportResult.body.summary.byCountry[productionPlaces[1].country] = 2
    /\ exportResult.body.summary.totalArea
          = productionPlaces[1].areaHectares + productionPlaces[2].areaHectares

\* the preview of a geometry: its first three positions as "lat,lng" pairs,
\* and whether positions were left out
PreviewOf(geometry) ==
    LET coords == IF geometry = NoGeometry THEN <<>> ELSE getCoordinatesFromGeometry(geometry)
    IN  [pairs |-> [c \in 1..(IF Len(coords) > 3 THEN 3 ELSE Len(coords)) |->
                       <<toFixed6(coords[c][2]), toFixed6(coords[c][1])>>],
         more |-> Len(coords) > 3]

\* C24: summary.csv has one data row per feature, in feature order, for
\* every list of places, places that share a name included: the Coordinates
\* cell of row i is the preview of feature i's own geometry (at most three
\* "lat,lng" pairs, then "..." exactly when positions were left out) and the
\* ValidationStatus cell is VALID.
C24_SummaryRowPerFeature ==
    Exported =>
        LET rows == ExportedFiles.summaryCSV
            doc == ExportedFiles.geojson
        IN  /\ Len(rows) = Len(doc.features)
            /\ \A i \in 1..Len(rows) :
                  /\ rows[i].Coordinates = PreviewOf(doc.features[i].geometry)
                  /\ rows[i].ValidationStatus = "VALID"

\* C30: an export that succeeds returns validFeatures + invalidFeatures =
\* summary.totalPlaces with neither count negative, and the record it stores
\* has the validFeatures, invalidFeatures and errors it returns.
C30_ReturnedAndStoredCountsAgree ==
    Exported =>
        LET returned == exportResult.body.validationReport
            stored == geoJSONExports[Len(geoJSONExports)].validationReport
        IN  /\ returned.validFeatures >= 0
            /\ returned.invalidFeatures >= 0
            /\ returned.validFeatures + returned.invalidFeatures
                  = exportResult.body.summary.totalPlaces
            /\ stored.validFeatures = returned.validFeatures
            /\ stored.invalidFeatures = returned.invalidFeatures
            /\ stored.errors = returned.errors

---------------------------------------------------------------------------
(* Login rate limiting (lib/auth and the login route) *)

MAX_LOGIN_ATTEMPTS == 5
LOCKOUT_DURATION_MINUTES == 15

\* a prisma.loginAttempt row of a failed login
LoginAttempt(createdAt, locked) == [createdAt |-> createdAt, locked |-> locked]

\* prisma.loginAttempt.count({ where: { email, createdAt: { gte: windowStart } } })
countAttempts(rows, windowStart) ==
    Cardinality({k \in 1..Len(rows) : rows[k].createdAt >= windowStart})

\* prisma.loginAttempt.findFirst({ where: { email, locked: true },
\* orderBy: { createdAt: 'desc' } }): the index of that row, 0 for null
latestLock(rows) ==
    LET locked == {k \in 1..Len(rows) : rows[k].locked}
    IN  IF locked = {} THEN 0
        ELSE CHOOSE k \in locked : \A j \in locked : rows[j].createdAt <= rows[k].createdAt

checkRateLimit(rows, at) ==
    LET attempts == countAttempts(rows, at - LOCKOUT_DURATION_MINUTES)
        lock == latestLock(rows)
    IN  IF lock # 0 /\ at < rows[lock].createdAt + LOCKOUT_DURATION_MINUTES
        THEN [allowed |-> FALSE, remaining |-> 0]
        ELSE [allowed |-> TRUE,
              remaining |-> IF MAX_LOGIN_ATTEMPTS - attempts > 0
                            THEN MAX_LOGIN_ATTEMPTS - attempts ELSE 0]

---------------------------------------------------------------------------
(* LoginSpec: login requests for one email, and the clock *)

MaxClock == 15
MaxAttempts == 6
ClockSteps == {5}

LoginInit ==
    /\ geojson = NoDocument
    /\ call = NoCall
    /\ ret = <<>>
    /\ ExportIdle
    /\ LoginIdle
    /\ PlacesIdle
    /\ response = NoResponse

LoginResponse(status) == [route |-> "POST /api/auth", status |-> status]

InFlight == {r \in Logins : logins[r].pc # "idle"}

Tick ==
    /\ \E step \in ClockSteps : now + step <= MaxClock /\ now' = now + step
    /\ UNCHANGED <<loginAttempts, logins, response, libVars, exportVars, placeVars>>

\* the login branch of POST up to the answer of checkRateLimit: 429 when the
\* email is locked
PostLogin(r) ==
    /\ logins[r].pc = "idle"
    /\ Len(loginAttempts) + Cardinality(InFlight) < MaxAttempts
    /\ IF checkRateLimit(loginAttempts, now).allowed
       THEN /\ logins' = [logins EXCEPT ![r].pc = "verifyPassword"]
            /\ UNCHANGED response
       ELSE /\ response' = LoginResponse(429)
            /\ UNCHANGED logins
    /\ UNCHANGED <<loginAttempts, now, libVars, exportVars, placeVars>>

\* prisma.client.findUnique and verifyPassword: an unknown email or a wrong
\* password starts recordFailedAttempt and answers 401, the right password
\* starts clearLoginAttempts and answers 200; neither call is awaited
VerifyPassword(r) ==
    /\ logins[r].pc = "verifyPassword"
    /\ \E isValid \in BOOLEAN :
          IF isValid
          THEN /\ logins' = [logins EXCEPT ![r].pc = "clearLoginAttempts"]
               /\ response' = LoginResponse(200)
          ELSE /\ logins' = [logins EXCEPT ![r].pc = "recordFailedAttempt"]
               /\ response' = LoginResponse(401)
    /\ UNCHANGED <<loginAttempts, now, libVars, exportVars, placeVars>>

\* recordFailedAttempt, its count
CountAttempts(r) ==
    /\ logins[r].pc = "recordFailedAttempt"
    /\ logins' = [logins EXCEPT ![r] =
                     [pc |-> "create",
                      attempts |-> countAttempts(loginAttempts,
                                                 now - LOCKOUT_DURATION_MINUTES)]]
    /\ UNCHANGED <<loginAttempts, now, response, libVars, exportVars, placeVars>>

\* recordFailedAttempt, its create
CreateAttempt(r) ==
    /\ logins[r].pc = "create"
    /\ loginAttempts' = Append(loginAttempts,
                               LoginAttempt(now, logins[r].attempts >= MAX_LOGIN_ATTEMPTS - 1))
    /\ logins' = [logins EXCEPT ![r] = NoLogin]
    /\ UNCHANGED <<now, response, libVars, exportVars, placeVars>>

\* prisma.loginAttempt.deleteMany({ where: { email } })
ClearLoginAttempts(r) ==
    /\ logins[r].pc = "clearLoginAttempts"
    /\ loginAttempts' = <<>>
    /\ logins' = [logins EXCEPT ![r] = NoLogin]
    /\ UNCHANGED <<now, response, libVars, exportVars, placeVars>>

LoginNext ==
    \/ Tick
    \/ \E r \in Logins :
          \/ PostLogin(r)
          \/ VerifyPassword(r)
          \/ CountAttempts(r)
          \/ CreateAttempt(r)
          \/ ClearLoginAttempts(r)

LoginSpec == LoginInit /\ [][LoginNext]_vars

\* the failed attempts recorded in the 15 minutes that end with attempt k
FailedInWindow(k) ==
    {j \in 1..k : loginAttempts[j].createdAt
                     > loginAttempts[k].createdAt - LOCKOUT_DURATION_MINUTES}

\* C26: login is limited to 5 attempts per 15 minutes: under any
\* interleaving of login requests for one email, no more than 5 failed
\* attempts are accepted within 15 minutes before the email is locked out.
C26_AtMostFiveFailedAttemptsPerWindow ==
    \A k \in 1..Len(loginAttempts) :
        Cardinality(FailedInWindow(k)) <= MAX_LOGIN_ATTEMPTS

---------------------------------------------------------------------------
(* Production places: the dashboard's POST and PATCH, the supplier portal's *)
(* submit and complete                                                      *)

\* a Json column that holds null, and one that holds a list of errors
JsonNull == [isNull |-> TRUE, errors |-> <<>>]
JsonErrors(errors) == [isNull |-> FALSE, errors |-> errors]

\* a prisma.productionPlace row as create and update write it
PlaceRow(name, areaHectares, geometryType, coordinates, country, validationStatus, validationErrors) ==
    [name |-> name, areaHectares |-> areaHectares, geometryType |-> geometryType,
     coordinates |-> coordinates, country |-> country,
     validationStatus |-> validationStatus, validationErrors |-> validationErrors]

\* a field a PATCH body leaves out
Omitted == [type |-> "omitted", coordinates |-> <<>>]

\* the positions of a coordinates value of a request body: [lng, lat] is kept
\* as an array of one position
positionsOf(coordinates) == coordinates.coordinates[1][1]

\* Array.isArray(coordinates[0])
isPolygonArray(coordinates) == Len(positionsOf(coordinates)) > 1

\* z.union([pointCoordinatesSchema, polygonCoordinatesSchema]): every number
\* between -180 and 180, a polygon array of at least 4 pairs
coordinatesSchemaRejects(coordinates) ==
    \/ \E k \in 1..Len(positionsOf(coordinates)) : \E axis \in {1, 2} :
          \/ positionsOf(coordinates)[k][axis] < Deg(-180)
          \/ positionsOf(coordinates)[k][axis] > Deg(180)
    \/ (isPolygonArray(coordinates) /\ Len(positionsOf(coordinates)) < 4)

\* the collection of one feature that POST and PATCH hand to validateGeoJSON
placeGeoJSON(name, areaHectares, country, geometryType, coordinates) ==
    FeatureCollection(<<Feature(name, areaHectares, country,
                                IF geometryType = "POLYGON"
                                THEN Polygon(<<positionsOf(coordinates)>>)
                                ELSE Point(positionsOf(coordinates)[1]))>>)

PlaceResponse(route, status) == [route |-> route, status |-> status]

---------------------------------------------------------------------------
(* PlacesSpec: one supplier's production places and status *)

MaxRows == 1

PlaceAreas == {2, 5}
PlaceCoordinates ==
    {RawArray(<<pD>>), RawArray(<<pC>>), RawArray(closedRing), RawArray(openRing)}

\* the bodies of POST /api/production-places: coordinates of the shape of
\* geometryType
PlaceBodies ==
    {body \in [name : {"Plot"}, areaHectares : PlaceAreas, geometryType : {"POINT", "POLYGON"},
               coordinates : PlaceCoordinates, country : {"BR"}] :
        (body.geometryType = "POLYGON") <=> isPolygonArray(body.coordinates)}

\* the bodies of PATCH /api/production-places, id apart
PlacePatches ==
    {body \in [areaHectares : PlaceAreas \cup {Undefined},
               geometryType : {"POINT", "POLYGON", "undefined"},
               coordinates : PlaceCoordinates \cup {Omitted}] :
        /\ (body.coordinates = Omitted) <=> (body.geometryType = "undefined")
        /\ body.coordinates # Omitted =>
              ((body.geometryType = "POLYGON") <=> isPolygonArray(body.coordinates))}

\* the bodies of the portal's submit
SubmitBodies ==
    [name : {"Plot"}, areaHectares : PlaceAreas, coordinates : PlaceCoordinates,
     country : {"BR"}]

PlacesInit ==
    /\ geojson = NoDocument
    /\ call = NoCall
    /\ ret = <<>>
    /\ ExportIdle
    /\ LoginIdle
    /\ PlacesIdle
    /\ response = NoResponse

\* POST /api/production-places
PostProductionPlace ==
    \E session \in BOOLEAN, found \in BOOLEAN, body \in PlaceBodies :
        /\ Len(placeRows) < MaxRows
        /\ IF ~session
           THEN /\ response' = PlaceResponse("POST /api/production-places", 500)
                /\ UNCHANGED placeVars
           ELSE IF coordinatesSchemaRejects(body.coordinates)
           THEN /\ response' = PlaceResponse("POST /api/production-places", 400)
                /\ UNCHANGED placeVars
           ELSE IF ~found
           THEN /\ response' = PlaceResponse("POST /api/production-places", 404)
                /\ UNCHANGED placeVars
           ELSE LET validationResult ==
                        validateGeoJSON(placeGeoJSON(body.name, body.areaHectares, body.country,
                                                     body.geometryType, body.coordinates))
                IN  /\ placeRows' = Append(placeRows,
                          PlaceRow(body.name, body.areaHectares, body.geometryType,
                                   body.coordinates, body.country,
                                   IF validationResult.valid THEN "VALID" ELSE "INVALID",
                                   JsonErrors(validationResult.errors)))
                    /\ supplierStatus' = IF supplierStatus = "INVITED" THEN "IN_PROGRESS"
                                         ELSE supplierStatus
                    /\ response' = PlaceResponse("POST /api/production-places", 201)
        /\ UNCHANGED <<libVars, exportVars, loginVars>>

\* PATCH /api/production-places; id 0 is the id of no row
PatchProductionPlace ==
    \E session \in BOOLEAN, id \in 0..Len(placeRows), body \in PlacePatches :
        /\ IF ~session
           THEN /\ response' = PlaceResponse("PATCH /api/production-places", 500)
                /\ UNCHANGED placeVars
           ELSE IF body.coordinates # Omitted /\ coordinatesSchemaRejects(body.coordinates)
           THEN /\ response' = PlaceResponse("PATCH /api/production-places", 400)
                /\ UNCHANGED placeVars
           ELSE IF id = 0
           THEN /\ response' = PlaceResponse("PATCH /api/production-places", 404)
                /\ UNCHANGED placeVars
           ELSE LET place == placeRows[id]
                    validated == body.coordinates # Omitted /\ body.geometryType = "POLYGON"
                    validationResult ==
                        validateGeoJSON(placeGeoJSON(place.name,
                            IF body.areaHectares = Undefined \/ body.areaHectares = 0
                            THEN place.areaHectares ELSE body.areaHectares,
                            place.country, "POLYGON", body.coordinates))
                IN  /\ placeRows' = [placeRows EXCEPT ![id] =
                          PlaceRow(place.name,
                                   IF body.areaHectares = Undefined THEN place.areaHectares
                                   ELSE body.areaHectares,
                                   IF body.geometryType = "undefined" THEN place.geometryType
                                   ELSE body.geometryType,
                                   IF body.coordinates = Omitted THEN place.coordinates
                                   ELSE body.coordinates,
                                   place.country,
                                   IF ~validated THEN place.validationStatus
                                   ELSE IF validationResult.valid THEN "VALID" ELSE "INVALID",
                                   IF validated THEN JsonErrors(validationResult.errors)
                                   ELSE JsonNull)]
                    /\ response' = PlaceResponse("PATCH /api/production-places", 200)
                    /\ UNCHANGED supplierStatus
        /\ UNCHANGED <<libVars, exportVars, loginVars>>

\* the portal's submit: the place is stored as a geometry object, VALID
PortalSubmit ==
    \E found \in BOOLEAN, body \in SubmitBodies :
        /\ Len(placeRows) < MaxRows
        /\ IF isPolygonArray(body.coordinates) /\ Len(positionsOf(body.coordinates)) < 4
           THEN /\ response' = PlaceResponse("POST /api/portal/submit", 400)
                /\ UNCHANGED placeVars
           ELSE IF ~found
           THEN /\ response' = PlaceResponse("POST /api/portal/submit", 404)
                /\ UNCHANGED placeVars
           ELSE /\ placeRows' = Append(placeRows,
                      PlaceRow(body.name, body.areaHectares,
                               IF isPolygonArray(body.coordinates) THEN "POLYGON" ELSE "POINT",
                               IF isPolygonArray(body.coordinates)
                               THEN Polygon(<<positionsOf(body.coordinates)>>)
                               ELSE Point(positionsOf(body.coordinates)[1]),
                               body.country, "VALID", JsonNull))
                /\ supplierStatus' = "IN_PROGRESS"
                /\ response' = PlaceResponse("POST /api/portal/submit", 200)
        /\ UNCHANGED <<libVars, exportVars, loginVars>>

\* the portal's complete
PortalComplete ==
    \E found \in BOOLEAN :
        /\ IF ~found
           THEN /\ response' = PlaceResponse("POST /api/portal/complete", 404)
                /\ UNCHANGED placeVars
           ELSE /\ supplierStatus' = "COMPLETED"
                /\ response' = PlaceResponse("POST /api/portal/complete", 200)
                /\ UNCHANGED placeRows
        /\ UNCHANGED <<libVars, exportVars, loginVars>>

PlacesNext ==
    \/ PostProductionPlace
    \/ PatchProductionPlace
    \/ PortalSubmit
    \/ PortalComplete

PlacesSpec == PlacesInit /\ [][PlacesNext]_vars

\* the geometry a row stores: the geometry object of the portal, or the
\* dashboard's bare array read as its geometryType says
StoredGeometry(row) ==
    IF row.coordinates.type = "undefined"
    THEN IF row.geometryType = "POLYGON" THEN Polygon(<<positionsOf(row.coordinates)>>)
         ELSE Point(positionsOf(row.coordinates)[1])
    ELSE row.coordinates

\* validateGeoJSON of a row's stored geometry and area
StoredValidation(row) ==
    validateGeoJSON(FeatureCollection(<<Feature(row.name, row.areaHectares, row.country,
                                                StoredGeometry(row))>>))

\* C28: after any sequence of creations, updates and portal submissions,
\* every stored production place has validationStatus VALID exactly when
\* validateGeoJSON of its stored geometry and area reports valid, and its
\* validationErrors are that validation's errors (null read as none).
C28_StoredStatusIsTheValidation ==
    \A i \in 1..Len(placeRows) :
        LET validation == StoredValidation(placeRows[i])
        IN  /\ ~validation.threw
            /\ (placeRows[i].validationStatus = "VALID") <=> validation.valid
            /\ placeRows[i].validationErrors.errors = validation.errors

StatusRank(status) ==
    CASE status = "INVITED" -> 0
      [] status = "IN_PROGRESS" -> 1
      [] status = "COMPLETED" -> 2

\* C29: the supplier's status only moves forward along INVITED,
\* IN_PROGRESS, COMPLETED: no creation, portal submission or portal
\* completion takes it back.
C29_SupplierStatusOnlyMovesForward ==
    [][StatusRank(supplierStatus') >= StatusRank(supplierStatus)]_vars

===========================================================================
